---- MODULE Spec2Model ----
(***************************************************************************)
(* Model of delaneyj/learnvulkan, main.go: the lifecycle of                *)
(* HelloTriangleApplication.Run (window, Vulkan instance, debug report     *)
(* callback, physical device selection, main loop, deferred cleanup), the  *)
(* validation layer check, the debug callback and the device scoring.      *)
(* The GLFW and Vulkan runtimes are the environment: every call into them  *)
(* draws its result from a small set.                                      *)
(***************************************************************************)
EXTENDS Integers, Sequences, FiniteSets, TLC

VARIABLES
    pc,                    \* position of Run: the stage about to run
    window,                \* app.window   (NULL = nil)
    instance,              \* app.instance (NULL = nil)
    debug,                 \* app.debug    (NULL = nil)
    err,                   \* the error Run returns, as its chain of messages
    stages,                \* the stages started so far, each with its outcome
    calls,                 \* resource calls made into GLFW / Vulkan, in order
    polls,                 \* iterations of mainLoop so far
    validationLayerNames,  \* the package variable of the requested layers
    layerCheck,            \* last call of checkValidationLayerSupport
    devices,               \* last enumeration seen by pickPhysicalDevice
    candidates,            \* its candidates, as sorted
    physicalDevice,        \* its result
    pickErr,               \* its error
    pickResults,           \* the results of its two enumeration calls
    goSort,                \* the sort.Slice implementation of the Go build
    log,                   \* lines written by debugCallback
    cbCalls                \* invocations of debugCallback: flags and result

vars == <<pc, window, instance, debug, err, stages, calls, polls,
          validationLayerNames, layerCheck, devices, candidates,
          physicalDevice, pickErr, pickResults, goSort, log, cbCalls>>

appVars  == <<window, instance, debug>>
pickVars == <<devices, candidates, physicalDevice, pickErr, pickResults>>

----------------------------------------------------------------------------
(* Bounds of the model.                                                    *)

MaxPolls == 2
MaxLayers == 2
MaxRequested == 2
MaxDevices == 2
MaxSortDevices == 7
MaxLog == 2

----------------------------------------------------------------------------
(* Constants of the program.                                               *)

enableValidationLayers == TRUE

NULL == 0

\* A handle the runtime hands out on success.
Handle == NULL + 1

\* The bonus of a discrete GPU.
DiscreteBonus == 1000

\* A Go string, as the sequence of its characters.
StdValidation ==
    <<"V","K","_","L","A","Y","E","R","_","L","U","N","A","R","G","_",
      "s","t","a","n","d","a","r","d","_",
      "v","a","l","i","d","a","t","i","o","n">>

InitialValidationLayerNames == <<StdValidation>>

----------------------------------------------------------------------------
(* Errors: github.com/pkg/errors chains, outermost message first.          *)

NoError == <<>>
New(msg) == <<msg>>
Wrap(e, msg) == <<msg>> \o e

\* What vk.Error makes of a result code.
vkError(result) == IF result = "Success" THEN NoError ELSE New(result)

VkResults == {"Success", "ErrorOutOfHostMemory"}

----------------------------------------------------------------------------
(* uint32 arithmetic, on two 16-bit limbs (value = hi * 2^16 + lo).        *)

Limb == 256 * 256

U32(h, l) == [hi |-> h, lo |-> l]
Zero32 == U32(0, 0)
Max32 == U32(Limb - 1, Limb - 1)

\* a + b in uint32: wraps modulo 2^32.
Add32(a, b) ==
    LET l == a.lo + b.lo
        h == a.hi + b.hi + (l \div Limb)
    IN  U32(h % Limb, l % Limb)

Gt32(a, b) == a.hi > b.hi \/ (a.hi = b.hi /\ a.lo > b.lo)

----------------------------------------------------------------------------
(* checkValidationLayerSupport.                                            *)

NUL == "NUL"

\* vk.vkToString: the bytes of a fixed-size C buffer up to its first zero byte.
RECURSIVE vkToString(_)
vkToString(buf) ==
    IF buf = <<>> \/ Head(buf) = NUL THEN <<>>
    ELSE <<Head(buf)>> \o vkToString(Tail(buf))

\* The name conversion loop: availableLayerNames[i] = vkToString(LayerName).
availableNames(availableLayers) ==
    [i \in 1..Len(availableLayers) |-> vkToString(availableLayers[i])]

\* The inner loop: found is set at the first available name equal to vln.
RECURSIVE foundLayer(_, _, _)
foundLayer(vln, availableLayerNames, k) ==
    IF k > Len(availableLayerNames) THEN FALSE
    ELSE IF vln = availableLayerNames[k] THEN TRUE
    ELSE foundLayer(vln, availableLayerNames, k + 1)

\* Mutant: found is declared outside the outer loop and never reset.
RECURSIVE layersSupportedFrom_foundKept(_, _, _, _)
layersSupportedFrom_foundKept(requested, availableLayerNames, i, found) ==
    IF i > Len(requested) THEN TRUE
    ELSE LET f == found \/ foundLayer(requested[i], availableLayerNames, 1)
         IN  IF ~f THEN FALSE
             ELSE layersSupportedFrom_foundKept(requested, availableLayerNames,
                                                i + 1, f)

layersSupported_foundKept(requested, availableLayerNames) ==
    layersSupportedFrom_foundKept(requested, availableLayerNames, 1, FALSE)

\* The outer loop: false at the first requested name that is not found.
RECURSIVE layersSupportedFrom(_, _, _)
layersSupportedFrom(requested, availableLayerNames, i) ==
    IF i > Len(requested) THEN TRUE
    ELSE IF ~foundLayer(requested[i], availableLayerNames, 1) THEN FALSE
    ELSE layersSupportedFrom(requested, availableLayerNames, i + 1)

layersSupported(requested, availableLayerNames) ==
    layersSupportedFrom(requested, availableLayerNames, 1)

\* The whole function: countResult and fillResult are the results of the two
\* calls of vk.EnumerateInstanceLayerProperties, availableLayers what the
\* second one filled in.
checkValidationLayerSupport(requested, countResult, fillResult, availableLayers) ==
    IF vkError(countResult) # NoError
    THEN [supported |-> FALSE,
          err |-> Wrap(vkError(countResult), "can't get layer count")]
    ELSE IF vkError(fillResult) # NoError
    THEN [supported |-> FALSE,
          err |-> Wrap(vkError(fillResult), "can't get layers")]
    ELSE [supported |-> layersSupported(requested, availableNames(availableLayers)),
          err |-> NoError]

\* Layer name buffers the runtime may report: a name, its terminating zero
\* byte, and whatever follows it in the buffer.
Buf(name, rest) == name \o <<NUL>> \o rest

LowerValidation ==
    <<"v","k","_","l","a","y","e","r","_","l","u","n","a","r","g","_",
      "s","t","a","n","d","a","r","d","_",
      "v","a","l","i","d","a","t","i","o","n">>

LayerBuffers ==
    { Buf(StdValidation, <<>>),
      Buf(StdValidation, <<"x">>),
      Buf(LowerValidation, <<>>),
      Buf(<<"a">>, <<>>),
      Buf(<<"A">>, <<"a">>) }

RequestedNames == { StdValidation, <<"a">>, <<"A">> }

SeqsUpTo(S, n) == UNION { [1..k -> S] : k \in 0..n }

\* What the second enumeration call may fill in.
LayerSlices == SeqsUpTo(LayerBuffers, MaxLayers)

RequestedLists == SeqsUpTo(RequestedNames, MaxRequested)

----------------------------------------------------------------------------
(* debugCallback.                                                          *)

DebugReportWarningBit == 2
DebugReportErrorBit == 8
vkFalse == 0

FlagBits == 4

RECURSIVE Pow2(_)
Pow2(n) == IF n = 0 THEN 1 ELSE 2 * Pow2(n - 1)

FlagValues == 0..(Pow2(FlagBits) - 1)

\* flags & bit != 0, for a bit that is a power of two.
HasBit(flags, bit) == (flags \div bit) % 2 = 1

ErrorFormat == "[ERROR %d] %s on layer %s"
WarnFormat == "[WARN %d] %s on layer %s"
UnknownFormat == "[WARN] unknown debug message %d (layer %s)"

\* Mutant: the warning case is tested before the error case.
debugCallbackFn_warnFirst(flags) ==
    IF HasBit(flags, DebugReportWarningBit)
    THEN [lines |-> <<WarnFormat>>, ret |-> vkFalse]
    ELSE IF HasBit(flags, DebugReportErrorBit)
    THEN [lines |-> <<ErrorFormat>>, ret |-> vkFalse]
    ELSE [lines |-> <<UnknownFormat>>, ret |-> vkFalse]

\* One invocation: the lines it logs (by their format) and the value it
\* returns.
debugCallbackFn(flags) ==
    IF HasBit(flags, DebugReportErrorBit)
    THEN [lines |-> <<ErrorFormat>>, ret |-> vkFalse]
    ELSE IF HasBit(flags, DebugReportWarningBit)
    THEN [lines |-> <<WarnFormat>>, ret |-> vkFalse]
    ELSE [lines |-> <<UnknownFormat>>, ret |-> vkFalse]

----------------------------------------------------------------------------
(* pickPhysicalDevice.                                                     *)

DiscreteGpu == "DiscreteGpu"
DeviceTypes == {"IntegratedGpu", DiscreteGpu}

\* The body of the scoring loop for one device d, in uint32.
deviceScore(d) ==
    LET s0 == Zero32
        s1 == IF d.DeviceType = DiscreteGpu
              THEN Add32(s0, U32(0, DiscreteBonus)) ELSE s0
        s2 == Add32(s1, d.MaxImageDimension2D)
    IN  IF d.GeometryShader THEN Zero32 ELSE s2

scoreCandidates(devs) ==
    [i \in 1..Len(devs) |->
        [Device |-> devs[i].Device, Name |-> devs[i].Name,
         Score |-> deviceScore(devs[i])]]

\* The comparator handed to sort.Slice.
less(a, b) == Gt32(a.Score, b.Score)

Swap(s, i, j) == [s EXCEPT ![i] = s[j], ![j] = s[i]]

\* sort.Slice, for the slices of at most 12 elements the model hands it.
\* Positions are 1-based here.  insertionSort_func of package sort:
RECURSIVE sinkElement(_, _)
sinkElement(s, j) ==
    IF j > 1 /\ less(s[j], s[j - 1])
    THEN sinkElement(Swap(s, j, j - 1), j - 1)
    ELSE s

RECURSIVE insertionSortFrom(_, _)
insertionSortFrom(s, i) ==
    IF i > Len(s) THEN s ELSE insertionSortFrom(sinkElement(s, i), i + 1)

insertionSort(s) == insertionSortFrom(s, 2)

\* The ShellSort pass with gap 6 that quickSort_func (Go 1.8 to 1.18) makes
\* before its insertion sort.
RECURSIVE shellPassFrom(_, _)
shellPassFrom(s, i) ==
    IF i > Len(s) THEN s
    ELSE shellPassFrom(IF less(s[i], s[i - 6]) THEN Swap(s, i, i - 6) ELSE s,
                       i + 1)

GoSorts == {"quickSort", "pdqsort"}

\* Mutant: the comparator is a.Score < b.Score.
sortSlice_ascending(s, impl) ==
    LET RECURSIVE sink(_, _)
        sink(t, j) == IF j > 1 /\ Gt32(t[j - 1].Score, t[j].Score)
                      THEN sink(Swap(t, j, j - 1), j - 1) ELSE t
        RECURSIVE from(_, _)
        from(t, i) == IF i > Len(t) THEN t ELSE from(sink(t, i), i + 1)
    IN  from(s, 2)

\* sort.Slice(candidates, less) as the build's package sort computes it:
\* pdqsort_func (Go 1.19 on) is an insertion sort up to 12 elements,
\* quickSort_func (before) a gap-6 pass followed by an insertion sort.
sortSlice(s, impl) ==
    IF Len(s) <= 1 THEN s
    ELSE IF impl = "quickSort" THEN insertionSort(shellPassFrom(s, 7))
    ELSE insertionSort(s)

\* Mutant: a chosen candidate of score 0 is refused as unsuitable.
pickPhysicalDeviceFn_zeroRefused(countResult, fillResult, devs, impl) ==
    IF vkError(countResult) # NoError
    THEN [physicalDevice |-> NULL, candidates |-> <<>>,
          err |-> Wrap(vkError(countResult), "can't get physical device count")]
    ELSE IF vkError(fillResult) # NoError
    THEN [physicalDevice |-> NULL, candidates |-> <<>>,
          err |-> Wrap(vkError(fillResult), "can't get physical device count")]
    ELSE IF Len(devs) = 0
    THEN [physicalDevice |-> NULL, candidates |-> <<>>,
          err |-> New("no phyical device detected")]
    ELSE LET sorted == sortSlice(scoreCandidates(devs), impl)
             chosen == sorted[1]
         IN  [physicalDevice |-> chosen.Device, candidates |-> sorted,
              err |-> IF chosen.Device = NULL \/ chosen.Score = Zero32
                      THEN New("failed to find suitable GPU") ELSE NoError]

\* The function from the enumeration on.  countResult and fillResult are the
\* results of the two calls of vk.EnumeratePhysicalDevices, devs the slice
\* after the second one, each device with what the property and feature
\* queries report for it.
pickPhysicalDeviceFn(countResult, fillResult, devs, impl) ==
    IF vkError(countResult) # NoError
    THEN [physicalDevice |-> NULL, candidates |-> <<>>,
          err |-> Wrap(vkError(countResult), "can't get physical device count")]
    ELSE IF vkError(fillResult) # NoError
    THEN [physicalDevice |-> NULL, candidates |-> <<>>,
          err |-> Wrap(vkError(fillResult), "can't get physical device count")]
    ELSE IF Len(devs) = 0
    THEN [physicalDevice |-> NULL, candidates |-> <<>>,
          err |-> New("no phyical device detected")]
    ELSE LET sorted == sortSlice(scoreCandidates(devs), impl)
             chosen == sorted[1]
         IN  [physicalDevice |-> chosen.Device, candidates |-> sorted,
              err |-> IF chosen.Device = NULL
                      THEN New("failed to find suitable GPU") ELSE NoError]

\* Device slices of length k: the runtime filled in the first f handles (the
\* handle of the i-th device is i), the rest are still nil; attrs[i] is what
\* the queries report for the i-th entry.  A device is named by its position
\* in the enumeration.
RECURSIVE DeviceSliceFrom(_, _, _, _)
DeviceSliceFrom(i, k, f, attrs) ==
    IF i > k THEN <<>>
    ELSE <<[Device |-> IF i <= f THEN i ELSE NULL,
            Name |-> i,
            DeviceType |-> attrs[i].DeviceType,
            MaxImageDimension2D |-> attrs[i].MaxImageDimension2D,
            GeometryShader |-> attrs[i].GeometryShader]>>
         \o DeviceSliceFrom(i + 1, k, f, attrs)

DeviceSlice(k, f, attrs) == DeviceSliceFrom(1, k, f, attrs)

DeviceSlices(n, Attrs, nils) ==
    UNION { { DeviceSlice(k, f, attrs) :
                attrs \in [1..k -> Attrs],
                f \in (IF nils THEN 0..k ELSE {k}) } : k \in 0..n }

RunAttrs ==
    [DeviceType : DeviceTypes,
     MaxImageDimension2D : {U32(0, 4096), U32(0, 8192)},
     GeometryShader : BOOLEAN]

\* Few scores, many ties.
TieAttrs ==
    { [DeviceType |-> "IntegratedGpu", MaxImageDimension2D |-> U32(0, 0),
       GeometryShader |-> FALSE],
      [DeviceType |-> DiscreteGpu, MaxImageDimension2D |-> U32(0, 0),
       GeometryShader |-> FALSE],
      [DeviceType |-> "IntegratedGpu",
       MaxImageDimension2D |-> U32(0, DiscreteBonus),
       GeometryShader |-> FALSE] }

\* Dimensions over the whole uint32 range.
WideAttrs ==
    [DeviceType : DeviceTypes,
     MaxImageDimension2D : {U32(0, 0), U32(0, 4096), U32(1, 0),
                            U32(Limb - 1, Limb - 1 - DiscreteBonus),
                            U32(Limb - 1, Limb - DiscreteBonus),
                            Max32},
     GeometryShader : BOOLEAN]

----------------------------------------------------------------------------
(* The stages of Run, as functions of the runtime's answers.               *)

Call(fn, handle, ok) == [fn |-> fn, handle |-> handle, ok |-> ok]

\* initWindow: the new app.window, the error and the calls made.
initWindowFn(cur, initOk, createOk) ==
    IF ~initOk
    THEN [window |-> cur, calls |-> <<>>,
          err |-> Wrap(New("glfw"), "can't init GLFW")]
    ELSE IF ~createOk
    THEN [window |-> cur, calls |-> <<Call("glfw.CreateWindow", NULL, FALSE)>>,
          err |-> Wrap(New("glfw"), "can't create GLFW window")]
    ELSE [window |-> Handle, calls |-> <<Call("glfw.CreateWindow", Handle, TRUE)>>,
          err |-> NoError]

\* The head of initVulkan: the loader address and vk.Init.
initVulkanFn(procAddrNil, initOk) ==
    IF procAddrNil THEN New("GLFW instanceProcAddress is nil")
    ELSE IF ~initOk THEN Wrap(New("vk"), "can't vk.init()")
    ELSE NoError

\* Mutant: app.instance is assigned before the result is tested.
createInstanceCall_assignFirst(cur, createResult) ==
    IF vkError(createResult) # NoError
    THEN [instance |-> Handle,
          calls |-> <<Call("vk.CreateInstance", NULL, FALSE)>>,
          err |-> Wrap(vkError(createResult), "can't create instance")]
    ELSE [instance |-> Handle,
          calls |-> <<Call("vk.CreateInstance", Handle, TRUE)>>,
          err |-> NoError]

\* The tail of createInstance: vk.CreateInstance and the assignment.
createInstanceCall(cur, createResult) ==
    IF vkError(createResult) # NoError
    THEN [instance |-> cur,
          calls |-> <<Call("vk.CreateInstance", NULL, FALSE)>>,
          err |-> Wrap(vkError(createResult), "can't create instance")]
    ELSE [instance |-> Handle,
          calls |-> <<Call("vk.CreateInstance", Handle, TRUE)>>,
          err |-> NoError]

\* createInstance: chk is the result of checkValidationLayerSupport,
\* extCount and extFill the results of the two calls of
\* vk.EnumerateInstanceExtensionProperties.
createInstanceFn(cur, chk, extCount, extFill, createResult) ==
    IF enableValidationLayers /\ chk.err # NoError
    THEN [instance |-> cur, calls |-> <<>>,
          err |-> Wrap(chk.err, "can't check validation layers")]
    ELSE IF enableValidationLayers /\ ~chk.supported
    THEN [instance |-> cur, calls |-> <<>>,
          err |-> New("validation layers requested but not available")]
    ELSE IF vkError(extCount) # NoError
    THEN [instance |-> cur, calls |-> <<>>,
          err |-> Wrap(vkError(extCount), "can't enumerate instance extensions")]
    ELSE IF vkError(extFill) # NoError
    THEN [instance |-> cur, calls |-> <<>>,
          err |-> Wrap(vkError(extFill), "can't enumerate instance extensions")]
    ELSE createInstanceCall(cur, createResult)

setupDebugCallbackFn(cur, createResult) ==
    IF ~enableValidationLayers
    THEN [debug |-> cur, calls |-> <<>>, err |-> NoError]
    ELSE IF vkError(createResult) # NoError
    THEN [debug |-> cur,
          calls |-> <<Call("vk.CreateDebugReportCallback", NULL, FALSE)>>,
          err |-> Wrap(vkError(createResult), "can't create debug report")]
    ELSE [debug |-> Handle,
          calls |-> <<Call("vk.CreateDebugReportCallback", Handle, TRUE)>>,
          err |-> NoError]

\* Mutant: the instance is destroyed before the debug report callback.
cleanupCalls_instanceFirst(w, i, d) ==
    (IF i # NULL THEN <<Call("vk.DestroyInstance", i, TRUE)>> ELSE <<>>)
    \o (IF enableValidationLayers /\ d # NULL
        THEN <<Call("vk.DestroyDebugReportCallback", d, TRUE)>> ELSE <<>>)
    \o (IF w # NULL THEN <<Call("Window.Destroy", w, TRUE)>> ELSE <<>>)
    \o <<Call("glfw.Terminate", NULL, TRUE)>>

\* Mutant: the instance is destroyed without the nil test.
cleanupCalls_noNilTest(w, i, d) ==
    (IF enableValidationLayers /\ d # NULL
     THEN <<Call("vk.DestroyDebugReportCallback", d, TRUE)>> ELSE <<>>)
    \o <<Call("vk.DestroyInstance", i, TRUE)>>
    \o (IF w # NULL THEN <<Call("Window.Destroy", w, TRUE)>> ELSE <<>>)
    \o <<Call("glfw.Terminate", NULL, TRUE)>>

\* cleanup: the destroy calls it makes, in order.  nil and
\* vk.NullDebugReportCallback are both NULL here.
cleanupCalls(w, i, d) ==
    (IF enableValidationLayers /\ d # NULL /\ d # NULL
     THEN <<Call("vk.DestroyDebugReportCallback", d, TRUE)>> ELSE <<>>)
    \o (IF i # NULL THEN <<Call("vk.DestroyInstance", i, TRUE)>> ELSE <<>>)
    \o (IF w # NULL THEN <<Call("Window.Destroy", w, TRUE)>> ELSE <<>>)
    \o <<Call("glfw.Terminate", NULL, TRUE)>>

----------------------------------------------------------------------------
(* The state after construction: app := HelloTriangleApplication{}.        *)

NoLayerCheck ==
    [ran |-> FALSE, countResult |-> "Success", fillResult |-> "Success",
     availableLayers |-> <<>>, supported |-> FALSE, err |-> NoError]

Init ==
    /\ pc = "initWindow"
    /\ window = NULL
    /\ instance = NULL
    /\ debug = NULL
    /\ err = NoError
    /\ stages = <<>>
    /\ calls = <<>>
    /\ polls = 0
    /\ validationLayerNames = InitialValidationLayerNames
    /\ layerCheck = NoLayerCheck
    /\ devices = <<>>
    /\ candidates = <<>>
    /\ physicalDevice = NULL
    /\ pickErr = NoError
    /\ pickResults = <<>>
    /\ goSort \in GoSorts
    /\ log = <<>>
    /\ cbCalls = <<>>

----------------------------------------------------------------------------
(* Run: one action per stage.  A stage that fails hands its error, wrapped, *)
(* to Run, whose deferred cleanup is then the next thing to run.           *)

stageDone(stage, e, next) ==
    /\ stages' = Append(stages, [stage |-> stage, ok |-> e = NoError])
    /\ IF e = NoError
       THEN pc' = next /\ err' = err
       ELSE pc' = "cleanup" /\ err' = e

initWindow ==
    /\ pc = "initWindow"
    /\ \E initOk \in BOOLEAN, createOk \in BOOLEAN :
         LET r == initWindowFn(window, initOk, createOk)
         IN  /\ window' = r.window
             /\ calls' = calls \o r.calls
             /\ stageDone("initWindow",
                          IF r.err = NoError THEN NoError
                          ELSE Wrap(r.err, "can't init window"),
                          "initVulkan")
    /\ UNCHANGED <<instance, debug, polls, validationLayerNames, layerCheck,
                   pickVars, goSort, log, cbCalls>>

initVulkan ==
    /\ pc = "initVulkan"
    /\ \E procAddrNil \in BOOLEAN, initOk \in BOOLEAN :
         LET e == initVulkanFn(procAddrNil, initOk)
         IN  stageDone("initVulkan",
                       IF e = NoError THEN NoError
                       ELSE Wrap(e, "can't init vulkan"),
                       "createInstance")
    /\ UNCHANGED <<appVars, calls, polls, validationLayerNames, layerCheck,
                   pickVars, goSort, log, cbCalls>>

createInstance ==
    /\ pc = "createInstance"
    /\ \E layerCount \in VkResults, layerFill \in VkResults,
          availableLayers \in LayerSlices,
          extCount \in VkResults, extFill \in VkResults,
          createResult \in VkResults :
         LET chk == checkValidationLayerSupport(validationLayerNames, layerCount,
                                                layerFill, availableLayers)
             r == createInstanceFn(instance, chk, extCount, extFill, createResult)
         IN  /\ instance' = r.instance
             /\ calls' = calls \o r.calls
             /\ stageDone("createInstance",
                          IF r.err = NoError THEN NoError
                          ELSE Wrap(Wrap(r.err, "can't create vk instance"),
                                    "can't init vulkan"),
                          "setupDebugCallback")
    /\ UNCHANGED <<window, debug, polls, validationLayerNames, layerCheck,
                   pickVars, goSort, log, cbCalls>>

\* Mutant: initVulkan drops the error of setupDebugCallback.
setupDebugCallback_errorDropped ==
    /\ pc = "setupDebugCallback"
    /\ \E createResult \in VkResults :
         LET r == setupDebugCallbackFn(debug, createResult)
         IN  /\ debug' = r.debug
             /\ calls' = calls \o r.calls
             /\ stages' = Append(stages, [stage |-> "setupDebugCallback",
                                          ok |-> r.err = NoError])
             /\ pc' = "pickPhysicalDevice"
             /\ err' = err
    /\ UNCHANGED <<window, instance, polls, validationLayerNames, layerCheck,
                   pickVars, goSort, log, cbCalls>>

setupDebugCallback ==
    /\ pc = "setupDebugCallback"
    /\ \E createResult \in VkResults :
         LET r == setupDebugCallbackFn(debug, createResult)
         IN  /\ debug' = r.debug
             /\ calls' = calls \o r.calls
             /\ stageDone("setupDebugCallback",
                          IF r.err = NoError THEN NoError
                          ELSE Wrap(Wrap(r.err, "can't create vk instance"),
                                    "can't init vulkan"),
                          "pickPhysicalDevice")
    /\ UNCHANGED <<window, instance, polls, validationLayerNames, layerCheck,
                   pickVars, goSort, log, cbCalls>>

hasNil(devs) == \E i \in 1..Len(devs) : devs[i].Device = NULL

\* pickPhysicalDevice on one of the device slices of Slices.  Querying the
\* properties of a nil handle is undefined: the process dies in the driver,
\* or the query returns with whatever the slice entry says.
pickPhysicalDeviceOn(Slices) ==
    /\ pc = "pickPhysicalDevice"
    /\ \E countResult \in VkResults, fillResult \in VkResults,
          devs \in Slices, dies \in BOOLEAN :
         LET r == pickPhysicalDeviceFn(countResult, fillResult, devs, goSort)
             enumerated == vkError(countResult) = NoError
                           /\ vkError(fillResult) = NoError
         IN  /\ dies => (enumerated /\ hasNil(devs))
             /\ devices' = IF enumerated THEN devs ELSE <<>>
             /\ pickResults' = <<countResult, fillResult>>
             /\ IF dies
                THEN /\ pc' = "crashed"
                     /\ UNCHANGED <<candidates, physicalDevice, pickErr, err,
                                    stages>>
                ELSE /\ candidates' = r.candidates
                     /\ physicalDevice' = r.physicalDevice
                     /\ pickErr' = r.err
                     /\ stageDone("pickPhysicalDevice",
                                  IF r.err = NoError THEN NoError
                                  ELSE Wrap(Wrap(r.err, "can't pick physical device"),
                                            "can't init vulkan"),
                                  "mainLoop")
    /\ UNCHANGED <<appVars, calls, polls, validationLayerNames, layerCheck,
                   goSort, log, cbCalls>>

RunSlices == DeviceSlices(MaxDevices, RunAttrs, TRUE)

pickPhysicalDevice == pickPhysicalDeviceOn(RunSlices)

\* One pass of mainLoop: leave when the window should close, else poll and
\* leave when escape is pressed.  mainLoop returns nil.
mainLoop ==
    /\ pc = "mainLoop"
    /\ \E shouldClose \in BOOLEAN, escape \in BOOLEAN :
         /\ (~shouldClose /\ ~escape) => polls < MaxPolls
         /\ polls' = IF shouldClose THEN polls ELSE polls + 1
         /\ pc' = IF shouldClose \/ escape THEN "cleanup" ELSE "mainLoop"
    /\ stages' = IF stages[Len(stages)].stage = "mainLoop" THEN stages
                 ELSE Append(stages, [stage |-> "mainLoop", ok |-> TRUE])
    /\ UNCHANGED <<appVars, err, calls, validationLayerNames, layerCheck,
                   pickVars, goSort, log, cbCalls>>

\* The deferred cleanup, then Run returns err.
cleanup ==
    /\ pc = "cleanup"
    /\ calls' = calls \o cleanupCalls(window, instance, debug)
    /\ pc' = "done"
    /\ UNCHANGED <<appVars, err, stages, polls, validationLayerNames, layerCheck,
                   pickVars, goSort, log, cbCalls>>

Next ==
    \/ initWindow
    \/ initVulkan
    \/ createInstance
    \/ setupDebugCallback
    \/ pickPhysicalDevice
    \/ mainLoop
    \/ cleanup

Spec == Init /\ [][Next]_vars

----------------------------------------------------------------------------
(* pickPhysicalDevice on wider inputs: more devices with tied scores, and  *)
(* dimensions over the whole uint32 range.  It starts where                *)
(* setupDebugCallback has succeeded.                                       *)

MaxWideDevices == 2

InitPick ==
    /\ pc = "pickPhysicalDevice"
    /\ window = Handle
    /\ instance = Handle
    /\ debug = Handle
    /\ err = NoError
    /\ stages = <<[stage |-> "initWindow", ok |-> TRUE],
                  [stage |-> "initVulkan", ok |-> TRUE],
                  [stage |-> "createInstance", ok |-> TRUE],
                  [stage |-> "setupDebugCallback", ok |-> TRUE]>>
    /\ calls = <<Call("glfw.CreateWindow", Handle, TRUE),
                 Call("vk.CreateInstance", Handle, TRUE),
                 Call("vk.CreateDebugReportCallback", Handle, TRUE)>>
    /\ polls = 0
    /\ validationLayerNames = InitialValidationLayerNames
    /\ layerCheck = NoLayerCheck
    /\ devices = <<>>
    /\ candidates = <<>>
    /\ physicalDevice = NULL
    /\ pickErr = NoError
    /\ pickResults = <<>>
    /\ goSort \in GoSorts
    /\ log = <<>>
    /\ cbCalls = <<>>

TiedSlices == DeviceSlices(MaxSortDevices, TieAttrs, FALSE)

pickTied == pickPhysicalDeviceOn(TiedSlices)

WideSlices == DeviceSlices(MaxWideDevices, WideAttrs, FALSE)

pickWide == pickPhysicalDeviceOn(WideSlices)

NextPick == pickTied \/ pickWide

SpecPick == InitPick /\ [][NextPick]_vars

----------------------------------------------------------------------------
(* debugCallback, invoked by the runtime while the callback is registered. *)

debugCallback ==
    /\ debug # NULL
    /\ pc \in {"pickPhysicalDevice", "mainLoop", "cleanup"}
    /\ Len(cbCalls) < MaxLog
    /\ \E flags \in FlagValues :
         LET r == debugCallbackFn(flags)
         IN  /\ log' = log \o r.lines
             /\ cbCalls' = Append(cbCalls, [flags |-> flags, ret |-> r.ret])
    /\ UNCHANGED <<pc, appVars, err, stages, calls, polls, validationLayerNames,
                   layerCheck, pickVars, goSort>>

NextCallback == debugCallback

SpecCallback == InitPick /\ [][NextCallback]_vars

----------------------------------------------------------------------------
(* checkValidationLayerSupport on any requested list.  It starts where the *)
(* head of initVulkan has succeeded.                                       *)

InitLayers ==
    /\ pc = "createInstance"
    /\ window = Handle
    /\ instance = NULL
    /\ debug = NULL
    /\ err = NoError
    /\ stages = <<[stage |-> "initWindow", ok |-> TRUE],
                  [stage |-> "initVulkan", ok |-> TRUE]>>
    /\ calls = <<Call("glfw.CreateWindow", Handle, TRUE)>>
    /\ polls = 0
    /\ validationLayerNames \in RequestedLists
    /\ layerCheck = NoLayerCheck
    /\ devices = <<>>
    /\ candidates = <<>>
    /\ physicalDevice = NULL
    /\ pickErr = NoError
    /\ pickResults = <<>>
    /\ goSort \in GoSorts
    /\ log = <<>>
    /\ cbCalls = <<>>

checkLayers ==
    /\ pc = "createInstance"
    /\ ~layerCheck.ran
    /\ \E layerCount \in VkResults, layerFill \in VkResults,
          availableLayers \in LayerSlices :
         LET chk == checkValidationLayerSupport(validationLayerNames, layerCount,
                                                layerFill, availableLayers)
         IN  layerCheck' = [ran |-> TRUE, countResult |-> layerCount,
                            fillResult |-> layerFill,
                            availableLayers |-> availableLayers,
                            supported |-> chk.supported, err |-> chk.err]
    /\ UNCHANGED <<pc, appVars, err, stages, calls, polls, validationLayerNames,
                   pickVars, goSort, log, cbCalls>>

NextLayers == checkLayers

SpecLayers == InitLayers /\ [][NextLayers]_vars

----------------------------------------------------------------------------
(* Properties.                                                             *)

Range(s) == { s[i] : i \in 1..Len(s) }

\* Whether the mathematical sum a + b exceeds the uint32 range.
Carries32(a, b) == a.hi + b.hi + ((a.lo + b.lo) \div Limb) >= Limb

\* The positions in calls of the calls of fn that meet ok.
CallsOf(fn, ok) == { i \in 1..Len(calls) : calls[i].fn = fn /\ calls[i].ok = ok }

Destroys == {"vk.DestroyDebugReportCallback", "vk.DestroyInstance", "Window.Destroy"}

\* The names of the destroy calls made so far, in order.
DestroyTrace ==
    LET d == SelectSeq(calls, LAMBDA c : c.fn \in Destroys)
    IN  [i \in 1..Len(d) |-> d[i].fn]

\* fn destroys what the successful calls of create acquired: once each, after
\* the acquisition, with the handle acquired, and never anything else.
Released(create, fn) ==
    /\ Cardinality(CallsOf(fn, TRUE)) = Cardinality(CallsOf(create, TRUE))
    /\ Cardinality(CallsOf(fn, TRUE)) <= 1
    /\ \A j \in CallsOf(fn, TRUE) :
         /\ calls[j].handle # NULL
         /\ \E i \in CallsOf(create, TRUE) :
              i < j /\ calls[i].handle = calls[j].handle

Failed(stage) == \E i \in 1..Len(stages) : stages[i].stage = stage /\ ~stages[i].ok
Succeeded(stage) == \E i \in 1..Len(stages) : stages[i].stage = stage /\ stages[i].ok

\* C1: cleanup runs exactly once before Run returns, whatever stage failed;
\* it destroys the debug report callback, then the instance, then the
\* window, each at most once and only if acquired, and everything acquired
\* is destroyed.
C1_CleanupOnceInOrder ==
    /\ Cardinality(CallsOf("glfw.Terminate", TRUE)) = (IF pc = "done" THEN 1 ELSE 0)
    /\ pc # "done" => DestroyTrace = <<>>
    /\ pc = "done" =>
         /\ DestroyTrace =
              SelectSeq(<<"vk.DestroyDebugReportCallback", "vk.DestroyInstance",
                          "Window.Destroy">>,
                        LAMBDA fn : CallsOf(fn, TRUE) # {})
         /\ Released("vk.CreateDebugReportCallback", "vk.DestroyDebugReportCallback")
         /\ Released("vk.CreateInstance", "vk.DestroyInstance")
         /\ Released("glfw.CreateWindow", "Window.Destroy")
         /\ calls[Len(calls)].fn = "glfw.Terminate"

\* Run has returned after pickPhysicalDevice failed, and all three were
\* destroyed.
C1_Witness ==
    /\ pc = "done"
    /\ Failed("pickPhysicalDevice")
    /\ DestroyTrace = <<"vk.DestroyDebugReportCallback", "vk.DestroyInstance",
                        "Window.Destroy">>

StageOrder ==
    <<"initWindow", "initVulkan", "createInstance", "setupDebugCallback",
      "pickPhysicalDevice", "mainLoop">>

\* C2: the stages start in the fixed order, each only after every earlier one
\* succeeded; after a failure no later stage is started, mainLoop is not
\* entered and Run returns a non-nil error.
C2_StagesGated ==
    /\ Len(stages) <= Len(StageOrder)
    /\ \A i \in 1..Len(stages) :
         /\ stages[i].stage = StageOrder[i]
         /\ i < Len(stages) => stages[i].ok
    /\ (\E i \in 1..Len(stages) : ~stages[i].ok) =>
         /\ pc \in {"cleanup", "done"}
         /\ err # NoError
         /\ polls = 0
         /\ ~Succeeded("mainLoop")
    /\ pc = "done" => (err = NoError <=> Succeeded("mainLoop"))

\* Run has returned after setupDebugCallback failed.
C2_Witness ==
    /\ pc = "done"
    /\ Failed("setupDebugCallback")
    /\ err # NoError

LayersAbsent == "validation layers requested but not available"

\* C3: after createInstance failed, app.instance is nil and no
\* vk.CreateInstance call succeeded; when the requested layer is absent the
\* call is never made and cleanup destroys the window only.
C3_CreateInstanceFailure ==
    Failed("createInstance") =>
        /\ instance = NULL
        /\ CallsOf("vk.CreateInstance", TRUE) = {}
        /\ err[Len(err)] = LayersAbsent =>
             /\ \A i \in 1..Len(calls) : calls[i].fn # "vk.CreateInstance"
             /\ pc = "done" => DestroyTrace = <<"Window.Destroy">>

\* Run has returned after the requested layer was found absent.
C3_Witness ==
    /\ pc = "done"
    /\ Failed("createInstance")
    /\ err = <<"can't init vulkan", "can't create vk instance", LayersAbsent>>

C4_Fields ==
    /\ instance # NULL => Succeeded("createInstance")
    /\ debug # NULL => (enableValidationLayers /\ instance # NULL)

C4_WrittenOnce ==
    /\ window # NULL => window' = window
    /\ instance # NULL => instance' = instance
    /\ debug # NULL => debug' = debug

\* C4: app.instance is nil until createInstance has succeeded, app.debug is
\* non-nil only with validation enabled and app.instance non-nil, and a field
\* once written never changes.
C4_HandlesInvariant == [](C4_Fields) /\ [][C4_WrittenOnce]_vars

\* All three fields were written, and Run has returned.
C4_Witness ==
    /\ pc = "done"
    /\ window # NULL /\ instance # NULL /\ debug # NULL

\* pickPhysicalDevice has returned (it was called and the process lives).
PickReturned == pickResults # <<>> /\ pc # "crashed"

Enumerated == PickReturned /\ pickResults = <<"Success", "Success">>

AllValid == \A i \in 1..Len(devices) : devices[i].Device # NULL

\* The score computed for the i-th enumerated device.
ScoreOf(i) == (CHOOSE c \in Range(candidates) : c.Name = i).Score

IsDevice(d, type, dim, geometry) ==
    /\ d.DeviceType = type
    /\ d.MaxImageDimension2D = dim
    /\ d.GeometryShader = geometry

\* Scenario 1 with the discrete GPU enumerated at position i, the integrated
\* one at position j.
Scenario1(i, j) ==
    /\ Enumerated /\ AllValid
    /\ Len(devices) = 2
    /\ IsDevice(devices[i], DiscreteGpu, U32(0, 4096), FALSE)
    /\ IsDevice(devices[j], "IntegratedGpu", U32(0, 8192), FALSE)

\* C5 as claimed: in scenario 1 the discrete GPU is selected.
C5_DiscreteSelected ==
    \A i \in 1..2, j \in 1..2 :
        Scenario1(i, j) => physicalDevice = devices[i].Device

\* C5: in scenario 1 the integrated GPU is selected (8192 against
\* 1000 + 4096), in either enumeration order.
C5_IntegratedSelected ==
    \A i \in 1..2, j \in 1..2 :
        Scenario1(i, j) => (physicalDevice = devices[j].Device /\ pickErr = NoError)

\* Scenario 1 with the discrete GPU enumerated first.
C5_Witness == Scenario1(1, 2) /\ physicalDevice = devices[2].Device

\* The enumeration positions of the devices of highest score.
Best == { i \in 1..Len(devices) :
            \A k \in 1..Len(devices) : ~Gt32(ScoreOf(k), ScoreOf(i)) }

FirstBest == CHOOSE i \in Best : \A k \in Best : i <= k

Picked == Enumerated /\ AllValid /\ Len(devices) > 0

\* C6 as claimed: the candidate selected has the highest score and, of the
\* candidates of that score, is the one enumerated first.
C6_FirstOfTies == Picked => physicalDevice = devices[FirstBest].Device

\* C7 as claimed: the score is decided by type, dimension and geometry flag;
\* without the flag a discrete GPU scores the dimension plus 1000 and any
\* other type the dimension, with no wrap-around; with the flag it scores 0.
C7_BonusExact ==
    Picked =>
        \A i \in 1..Len(devices) :
            LET d == devices[i]
            IN  /\ d.GeometryShader => ScoreOf(i) = Zero32
                /\ (~d.GeometryShader /\ d.DeviceType # DiscreteGpu) =>
                       ScoreOf(i) = d.MaxImageDimension2D
                /\ (~d.GeometryShader /\ d.DeviceType = DiscreteGpu) =>
                       /\ ~Carries32(d.MaxImageDimension2D, U32(0, DiscreteBonus))
                       /\ ScoreOf(i) = Add32(d.MaxImageDimension2D,
                                             U32(0, DiscreteBonus))

\* The name in a layer name buffer: what precedes its first zero byte.
NameIn(buf) ==
    LET zeros == { k \in 1..Len(buf) : buf[k] = NUL }
    IN  IF zeros = {} THEN buf
        ELSE SubSeq(buf, 1, (CHOOSE k \in zeros : \A m \in zeros : k <= m) - 1)

\* C8: when the enumeration succeeds, the result is true exactly when every
\* requested name equals the name of some available layer.
C8_LayerSupport ==
    (layerCheck.ran /\ layerCheck.countResult = "Success"
                    /\ layerCheck.fillResult = "Success") =>
        /\ layerCheck.err = NoError
        /\ layerCheck.supported <=>
             \A r \in Range(validationLayerNames) :
                 \E b \in Range(layerCheck.availableLayers) : NameIn(b) = r
        /\ validationLayerNames = <<>> => layerCheck.supported

\* Two requested names, both available, beside a layer that differs in case.
C8_Witness ==
    /\ layerCheck.ran
    /\ layerCheck.supported
    /\ validationLayerNames = <<StdValidation, <<"A">>>>
    /\ layerCheck.availableLayers = <<Buf(<<"A">>, <<"a">>), Buf(StdValidation, <<"x">>)>>

\* C9: each invocation logs one line: an error line if the ERROR bit is set,
\* else a warning line if the WARNING bit is set, else the unclassified
\* line; and it returns false.
C9_Classification ==
    /\ Len(log) = Len(cbCalls)
    /\ \A i \in 1..Len(cbCalls) :
         /\ cbCalls[i].ret = vkFalse
         /\ i <= Len(log) =>
              log[i] = (IF HasBit(cbCalls[i].flags, DebugReportErrorBit)
                        THEN ErrorFormat
                        ELSE IF HasBit(cbCalls[i].flags, DebugReportWarningBit)
                        THEN WarnFormat
                        ELSE UnknownFormat)

\* An invocation with the ERROR and the WARNING bit, logged as an error, and
\* one with the WARNING bit alone, logged as a warning.
C9_Witness ==
    /\ Len(cbCalls) = 2
    /\ cbCalls[1].flags = DebugReportErrorBit + DebugReportWarningBit
    /\ cbCalls[2].flags = DebugReportWarningBit
    /\ log = <<ErrorFormat, WarnFormat>>

NoDevice == <<"no phyical device detected">>
NoSuitable == <<"failed to find suitable GPU">>

\* C10: with no device enumerated the call fails with the no-device error and
\* sorts nothing; with devices enumerated, all of valid handle, it returns
\* one of them without error, whatever the scores.
C10_PickErrors ==
    /\ (Enumerated /\ Len(devices) = 0) =>
           (pickErr = NoDevice /\ candidates = <<>> /\ physicalDevice = NULL)
    /\ (Enumerated /\ Len(devices) > 0 /\ AllValid) =>
           /\ pickErr = NoError
           /\ \E i \in 1..Len(devices) : physicalDevice = devices[i].Device
    /\ pickErr = NoSuitable => ~AllValid

\* A single device with the geometry shader flag, selected with score 0.
C10_Witness ==
    /\ Enumerated
    /\ Len(devices) = 1
    /\ devices[1].Device # NULL
    /\ devices[1].GeometryShader
    /\ candidates[1].Score = Zero32
    /\ physicalDevice = devices[1].Device
    /\ pickErr = NoError

====
